---- MODULE Spec2Model ----
(***************************************************************************)
(* go-copystd: copy Go stdlib internal packages, with the packages they    *)
(* import, into a public module, rewriting import paths on the way.        *)
(*                                                                         *)
(* Strings.  A Go string is modelled as a sequence of atoms; the string is *)
(* the concatenation of the atoms' texts ("/" is the path separator, "\""  *)
(* a double quote, every other atom a run of letters).  No atom's text     *)
(* contains, or overlaps the boundary of, a pattern the program searches   *)
(* for, so strings.HasPrefix / TrimPrefix / ReplaceAll on the Go string    *)
(* and on its atom sequence agree.                                         *)
(***************************************************************************)
EXTENDS Integers, Sequences, FiniteSets, TLC

VARIABLES
  \* ---- command line and variant of the program
  variant,        \* "main" (src/main.go) or "part_000" (src/unnamed/part_000)
  flagPackages,   \* -packages / -package: sequence of root queries
  flagModule,     \* -module
  \* ---- the outside world: what 'go list' answers, what is on disk
  env,
  \* ---- run()
  pc, result, secondRun,
  ri,             \* index of the root in flagPackages
  listPkgs, li, ii,
  packages, pi,
  subPkgs, si, fi,
  body, rulesLeft,
  \* ---- destination tree
  dirs, fs,
  \* ---- history kept for the properties
  failure, afterFail, expandCalls, writes, handed, dirsAtStart,
  \* ---- the path mapper applied to one import path (SpecMap)
  mStage, mPath, mLit, mDir

flagVars == <<variant, flagPackages, flagModule, env>>
runVars  == <<pc, result, secondRun, ri, listPkgs, li, ii, packages, pi, subPkgs, si, fi,
              body, rulesLeft, dirs, fs, failure, afterFail, expandCalls, writes,
              handed, dirsAtStart>>
mapVars  == <<mStage, mPath, mLit, mDir>>
vars     == <<flagVars, runVars, mapVars>>

-----------------------------------------------------------------------------
(* package strings, path/filepath *)

sep == <<"/">>

QUOTE == <<"\"">>

HasPrefix(s, prefix) ==
  /\ Len(prefix) <= Len(s)
  /\ SubSeq(s, 1, Len(prefix)) = prefix

TrimPrefix(s, prefix) ==
  IF HasPrefix(s, prefix) THEN SubSeq(s, Len(prefix) + 1, Len(s)) ELSE s

RECURSIVE ReplaceAll(_, _, _)
ReplaceAll(s, old, new) ==
  IF s = <<>> THEN <<>>
  ELSE IF HasPrefix(s, old)
       THEN new \o ReplaceAll(SubSeq(s, Len(old) + 1, Len(s)), old, new)
       ELSE <<Head(s)>> \o ReplaceAll(Tail(s), old, new)

\* The path elements of p: the runs of atoms between separators.
RECURSIVE Elements(_, _)
Elements(p, cur) ==
  IF p = <<>> THEN <<cur>>
  ELSE IF Head(p) = "/" THEN <<cur>> \o Elements(Tail(p), <<>>)
       ELSE Elements(Tail(p), Append(cur, Head(p)))

RECURSIVE JoinElems(_)
JoinElems(es) ==
  IF es = <<>> THEN <<>>
  ELSE IF Len(es) = 1 THEN es[1]
  ELSE es[1] \o sep \o JoinElems(Tail(es))

\* filepath.Clean: no empty and no "." element, no trailing separator.
Clean(p) ==
  LET rooted == p # <<>> /\ Head(p) = "/"
      es     == SelectSeq(Elements(p, <<>>), LAMBDA e : e # <<>> /\ e # <<".">>)
      joined == JoinElems(es)
  IN  IF rooted THEN sep \o joined
      ELSE IF joined = <<>> THEN <<".">> ELSE joined

\* filepath.Join: empty elements ignored, the result cleaned; "" for no element.
Join(elems) ==
  LET nonEmpty == SelectSeq(elems, LAMBDA e : e # <<>>)
  IN  IF nonEmpty = <<>> THEN <<>> ELSE Clean(JoinElems(nonEmpty))

\* filepath.Base
Base(p) ==
  LET es == SelectSeq(Elements(p, <<>>), LAMBDA e : e # <<>>)
  IN  IF p = <<>> THEN <<".">>
      ELSE IF es = <<>> THEN sep ELSE es[Len(es)]

-----------------------------------------------------------------------------
(* globals *)

GOROOT == <<"/", "goroot">>

gorootSrc == Join(<<GOROOT, <<"src">>>>)

flagDist == <<"/", "dst">>

zbootstrap == <<"zbootstrap.go">>

-----------------------------------------------------------------------------
(* copyInternal's directory table and readFile's literal table *)

\* The table with a seventh entry whose prefix, <gorootSrc>/cmd, also leads
\* the prefixes of the five cmd entries.
RulesOverlap ==
  << [imppath |-> Join(<<gorootSrc, <<"cmd">>, <<"asm">>, <<"internal">>>>),
      fixpath |-> Join(<<gorootSrc, <<"asm">>>>)],
     [imppath |-> Join(<<gorootSrc, <<"cmd">>, <<"compile">>, <<"internal">>>>),
      fixpath |-> Join(<<gorootSrc, <<"compile">>>>)],
     [imppath |-> Join(<<gorootSrc, <<"cmd">>, <<"go">>, <<"internal">>>>),
      fixpath |-> Join(<<gorootSrc, <<"go">>>>)],
     [imppath |-> Join(<<gorootSrc, <<"cmd">>, <<"link">>, <<"internal">>>>),
      fixpath |-> Join(<<gorootSrc, <<"link">>>>)],
     [imppath |-> Join(<<gorootSrc, <<"cmd">>, <<"internal">>>>),
      fixpath |-> Join(<<gorootSrc>>)],
     [imppath |-> Join(<<gorootSrc, <<"internal">>>>),
      fixpath |-> Join(<<gorootSrc>>)],
     [imppath |-> Join(<<gorootSrc, <<"cmd">>>>),
      fixpath |-> Join(<<gorootSrc, <<"tools">>>>)] >>

\* The map literal copyInternal ranges over, in the order it is written.
Rules ==
  << [imppath |-> Join(<<gorootSrc, <<"cmd">>, <<"asm">>, <<"internal">>>>),
      fixpath |-> Join(<<gorootSrc, <<"asm">>>>)],
     [imppath |-> Join(<<gorootSrc, <<"cmd">>, <<"compile">>, <<"internal">>>>),
      fixpath |-> Join(<<gorootSrc, <<"compile">>>>)],
     [imppath |-> Join(<<gorootSrc, <<"cmd">>, <<"go">>, <<"internal">>>>),
      fixpath |-> Join(<<gorootSrc, <<"go">>>>)],
     [imppath |-> Join(<<gorootSrc, <<"cmd">>, <<"link">>, <<"internal">>>>),
      fixpath |-> Join(<<gorootSrc, <<"link">>>>)],
     [imppath |-> Join(<<gorootSrc, <<"cmd">>, <<"internal">>>>),
      fixpath |-> Join(<<gorootSrc>>)],
     [imppath |-> Join(<<gorootSrc, <<"internal">>>>),
      fixpath |-> Join(<<gorootSrc>>)] >>

\* if strings.HasPrefix(pkg.Dir, imppath)
RuleMatches(r, dir) == HasPrefix(dir, Rules[r].imppath)

\* The dir argument copyInternal passes to writeFile under rule r.
dstpath(r, dir) ==
  TrimPrefix(ReplaceAll(dir, Rules[r].imppath, Rules[r].fixpath), gorootSrc)

\* The directory writeFile works in: filepath.Join(flagDist, dir)
DstDirOf(r, dir) == Join(<<flagDist, dstpath(r, dir)>>)

\* readFile's six replacements, in the order the code applies them.
Literals(module) ==
  << [old |-> <<"cmd", "/", "asm", "/", "internal">> \o sep,
      new |-> Join(<<module, <<"asm">> \o sep>>)],
     [old |-> <<"cmd", "/", "compile", "/", "internal">> \o sep,
      new |-> Join(<<module, <<"compile">> \o sep>>)],
     [old |-> <<"cmd", "/", "go", "/", "internal">> \o sep,
      new |-> Join(<<module, <<"go">> \o sep>>)],
     [old |-> <<"cmd", "/", "link", "/", "internal">> \o sep,
      new |-> Join(<<module, <<"link">> \o sep>>)],
     [old |-> <<"cmd", "/", "internal">> \o sep,
      new |-> module \o sep],
     [old |-> <<"internal">> \o sep,
      new |-> module \o sep] >>

RECURSIVE ApplyLiterals(_, _, _)
ApplyLiterals(str, table, k) ==
  IF k > Len(table) THEN str
  ELSE ApplyLiterals(ReplaceAll(str, table[k].old, table[k].new), table, k + 1)

\* readFile applied to a file body str.
readFile(str, module) == ApplyLiterals(str, Literals(module), 1)

-----------------------------------------------------------------------------
(* the outside world: the source tree and the package resolver ('go list') *)

IA  == <<"internal", "/", "a">>
IB  == <<"internal", "/", "b">>
CO  == <<"cmd", "/", "internal", "/", "o">>
CG  == <<"cmd", "/", "go">>
FMT == <<"fmt">>
InternalAll == <<"internal", "/", "...">>

\* The packages of the source tree; FMT stands for the packages outside it.
Universe == {IA, IB, CO, CG}

\* Import edges a source tree may have (any subset): a chain IA -> IB -> CO,
\* a cycle IA <-> IB, an edge into cmd/go, an edge out of the tree.
EdgeChoices == {<<IA, FMT>>, <<IA, IB>>, <<IA, CG>>, <<IB, CO>>, <<IB, IA>>}

\* 'go list' reports Imports sorted.
ImportOrder == <<CG, CO, FMT, IA, IB>>

ImportsOf(p, edges) ==
  SelectSeq(ImportOrder, LAMBDA q : <<p, q>> \in edges)

\* The file lists a package may have, by role.
FileChoices ==
  { [GoFiles |-> <<"a.go">>, TestGoFiles |-> <<>>,
     XTestGoFiles |-> <<>>, IgnoredGoFiles |-> <<>>],
    [GoFiles |-> <<"zbootstrap.go">>, TestGoFiles |-> <<>>,
     XTestGoFiles |-> <<"x_test.go">>, IgnoredGoFiles |-> <<>>] }

\* IB may be absent from disk: its descriptor then has an empty Dir ("empty")
\* or names a directory that does not exist ("gone").
DiskChoices ==
  { [p \in Universe |-> IF p = IB THEN st ELSE "ok"] : st \in {"ok", "empty", "gone"} }

RootChoices == {IA, InternalAll}

MaxRoots == 2

\* The destination directories on which os.Stat fails with an error other than
\* "does not exist" (no permission, a file in the way).
StatErrChoices == { {}, {Join(<<flagDist, IB>>)} }

Modules == { <<"example.com", "/", "x">>, <<"example.com", "/", "internal", "/", "x">> }

DirOf(p) == IF env.disk[p] = "empty" THEN <<>> ELSE Join(<<gorootSrc, p>>)

\* type Package, as 'go list -json -e' fills it in.
Descr(p) ==
  IF env.disk[p] = "ok"
  THEN [Dir |-> DirOf(p), ImportPath |-> p, Imports |-> env.imports[p],
        GoFiles |-> env.files.GoFiles, TestGoFiles |-> env.files.TestGoFiles,
        XTestGoFiles |-> env.files.XTestGoFiles,
        IgnoredGoFiles |-> env.files.IgnoredGoFiles]
  ELSE [Dir |-> DirOf(p), ImportPath |-> p, Imports |-> <<>>,
        GoFiles |-> <<>>, TestGoFiles |-> <<>>,
        XTestGoFiles |-> <<>>, IgnoredGoFiles |-> <<>>]

\* The record -e yields for an argument that names no package on disk.
ErrDescr(arg) ==
  [Dir |-> <<>>, ImportPath |-> arg, Imports |-> <<>>,
   GoFiles |-> <<>>, TestGoFiles |-> <<>>,
   XTestGoFiles |-> <<>>, IgnoredGoFiles |-> <<>>]

\* What a successful listPackages(ctx, flagSrc, arg) returns: arg is a pattern,
\* an import path or a directory.
listPackages(arg) ==
  IF arg = InternalAll THEN <<Descr(IA), Descr(IB)>>
  ELSE IF arg \in Universe THEN <<Descr(arg)>>
  ELSE LET ps == {p \in Universe : env.disk[p] = "ok" /\ DirOf(p) = arg}
       IN  IF ps = {} THEN <<ErrDescr(arg)>>
           ELSE <<Descr(CHOOSE p \in ps : TRUE)>>

\* os.Stat(dir) on the source tree finds the directory.
StatSrc(dir) == \E p \in Universe : env.disk[p] = "ok" /\ DirOf(p) = dir

\* dir := filepath.Join(flagDist, strings.TrimPrefix(p.Dir, gorootSrc)) and
\* os.Stat(dir) fails with an error other than "does not exist".
StatDstErr(pdir) == Join(<<flagDist, TrimPrefix(pdir, gorootSrc)>>) \in env.statErr

\* The text of every file of package p: its import literals.
RECURSIVE ImportBlock(_)
ImportBlock(imps) ==
  IF imps = <<>> THEN <<>>
  ELSE QUOTE \o Head(imps) \o QUOTE \o ImportBlock(Tail(imps))

SrcBody(pkg) == ImportBlock(pkg.Imports)

-----------------------------------------------------------------------------
(* run: the restricted-import predicate of the expansion loop *)

IsRestrictedMain(imp) ==
  \/ HasPrefix(imp, Join(<<<<"cmd">>, <<"internal">>>>))
  \/ HasPrefix(imp, <<"internal">>)

IsRestrictedPart000(imp) ==
  \/ HasPrefix(imp, <<"cmd">>)
  \/ HasPrefix(imp, <<"internal">>)

IsRestricted(imp) ==
  IF variant = "main" THEN IsRestrictedMain(imp) ELSE IsRestrictedPart000(imp)

sourceFiles(pkg) ==
  LET names == pkg.GoFiles \o pkg.TestGoFiles \o pkg.XTestGoFiles \o pkg.IgnoredGoFiles
  IN  [k \in 1..Len(names) |-> Join(<<pkg.Dir, <<names[k]>>>>)]

-----------------------------------------------------------------------------
(* run *)

cursorVars == <<ri, listPkgs, li, ii, packages, pi, subPkgs, si, fi, body, rulesLeft>>
treeVars   == <<dirs, fs>>
ghostVars  == <<expandCalls, writes, handed, dirsAtStart>>

\* A callee returned an error and run returns it.
ReturnErr(kind) ==
  /\ failure' = kind
  /\ result' = "error"
  /\ pc' = "done"

\* A resolver call or a file write is being made.
Acting == afterFail' = (afterFail \/ failure # "none")

\* for _, pkg := range flagPackages: listPackages(ctx, flagSrc, pkg) succeeds
ListRoot ==
  /\ pc = "root" /\ ri <= Len(flagPackages)
  /\ listPkgs' = listPackages(flagPackages[ri])
  /\ li' = 1 /\ ii' = 0
  /\ packages' = <<>>
  /\ expandCalls' = <<>>
  /\ pc' = "expand"
  /\ Acting
  /\ UNCHANGED <<flagVars, mapVars, treeVars, result, secondRun, ri, pi, subPkgs, si, fi,
                 body, rulesLeft, failure, writes, handed, dirsAtStart>>

\* ... or fails: return fmt.Errorf("listPackages: %w", err)
ListRootErr ==
  /\ pc = "root" /\ ri <= Len(flagPackages)
  /\ ReturnErr("list")
  /\ Acting
  /\ UNCHANGED <<flagVars, mapVars, treeVars, cursorVars, ghostVars, secondRun>>

\* the range over flagPackages is exhausted: return nil
ReturnNil ==
  /\ pc = "root" /\ ri > Len(flagPackages)
  /\ result' = "ok"
  /\ pc' = "done"
  /\ UNCHANGED <<flagVars, mapVars, treeVars, cursorVars, ghostVars, secondRun,
                 failure, afterFail>>

\* os.Stat(listPkg.Dir) reports that the directory does not exist: continue
StatSkip ==
  /\ pc = "expand" /\ li <= Len(listPkgs) /\ ii = 0
  /\ ~StatSrc(listPkgs[li].Dir)
  /\ li' = li + 1
  /\ UNCHANGED <<flagVars, mapVars, treeVars, ghostVars, pc, result, secondRun, ri,
                 listPkgs, ii, packages, pi, subPkgs, si, fi, body, rulesLeft,
                 failure, afterFail>>

\* packages = append(packages, listPkg)
AppendListPkg ==
  /\ pc = "expand" /\ li <= Len(listPkgs) /\ ii = 0
  /\ StatSrc(listPkgs[li].Dir)
  /\ packages' = Append(packages, listPkgs[li])
  /\ ii' = 1
  /\ UNCHANGED <<flagVars, mapVars, treeVars, ghostVars, pc, result, secondRun, ri,
                 listPkgs, li, pi, subPkgs, si, fi, body, rulesLeft, failure, afterFail>>

AtImport ==
  /\ pc = "expand" /\ li <= Len(listPkgs)
  /\ ii >= 1 /\ ii <= Len(listPkgs[li].Imports)

\* case restricted: subPkgs, err := listPackages(ctx, flagSrc, imp) succeeds;
\* packages = append(packages, subPkgs...)
ListImport ==
  /\ AtImport
  /\ IsRestricted(listPkgs[li].Imports[ii])
  /\ packages' = packages \o listPackages(listPkgs[li].Imports[ii])
  /\ expandCalls' = Append(expandCalls, listPkgs[li].Imports[ii])
  /\ ii' = ii + 1
  /\ Acting
  /\ UNCHANGED <<flagVars, mapVars, treeVars, pc, result, secondRun, ri, listPkgs, li,
                 pi, subPkgs, si, fi, body, rulesLeft, failure, writes, handed,
                 dirsAtStart>>

\* The failed call is passed over and the range goes on with the next import.
ListImportErrIgnored ==
  /\ AtImport
  /\ IsRestricted(listPkgs[li].Imports[ii])
  /\ failure' = "list"
  /\ expandCalls' = Append(expandCalls, listPkgs[li].Imports[ii])
  /\ ii' = ii + 1
  /\ Acting
  /\ UNCHANGED <<flagVars, mapVars, treeVars, pc, result, secondRun, ri, listPkgs, li,
                 packages, pi, subPkgs, si, fi, body, rulesLeft, writes, handed,
                 dirsAtStart>>

\* ... or fails: return err
ListImportErr ==
  /\ AtImport
  /\ IsRestricted(listPkgs[li].Imports[ii])
  /\ ReturnErr("list")
  /\ expandCalls' = Append(expandCalls, listPkgs[li].Imports[ii])
  /\ Acting
  /\ UNCHANGED <<flagVars, mapVars, treeVars, cursorVars, secondRun, writes, handed,
                 dirsAtStart>>

\* default: fmt.Printf("ignore: %s\n", imp)
IgnoreImport ==
  /\ AtImport
  /\ ~IsRestricted(listPkgs[li].Imports[ii])
  /\ ii' = ii + 1
  /\ UNCHANGED <<flagVars, mapVars, treeVars, ghostVars, pc, result, secondRun, ri,
                 listPkgs, li, packages, pi, subPkgs, si, fi, body, rulesLeft,
                 failure, afterFail>>

\* the range over listPkg.Imports is exhausted: next listPkg
NextListPkg ==
  /\ pc = "expand" /\ li <= Len(listPkgs)
  /\ ii > Len(listPkgs[li].Imports)
  /\ li' = li + 1 /\ ii' = 0
  /\ UNCHANGED <<flagVars, mapVars, treeVars, ghostVars, pc, result, secondRun, ri,
                 listPkgs, packages, pi, subPkgs, si, fi, body, rulesLeft,
                 failure, afterFail>>

\* the range over listPkgs is exhausted: for _, p := range packages
ExpandDone ==
  /\ pc = "expand" /\ li > Len(listPkgs)
  /\ pi' = 1
  /\ pc' = "copy"
  /\ UNCHANGED <<flagVars, mapVars, treeVars, ghostVars, result, secondRun, ri,
                 listPkgs, li, ii, packages, subPkgs, si, fi, body, rulesLeft,
                 failure, afterFail>>

\* os.Stat(dir) of the destination fails with an error other than "does not
\* exist" (a permission, a file in the way): continue
DstStatSkip ==
  /\ pc = "copy" /\ pi <= Len(packages)
  /\ StatDstErr(packages[pi].Dir)
  /\ pi' = pi + 1
  /\ UNCHANGED <<flagVars, mapVars, treeVars, ghostVars, pc, result, secondRun, ri,
                 listPkgs, li, ii, packages, subPkgs, si, fi, body, rulesLeft,
                 failure, afterFail>>

\* os.Stat(dir) succeeds or reports "does not exist":
\* subPkgs, err := listPackages(ctx, flagSrc, p.Dir) succeeds
ListDir ==
  /\ pc = "copy" /\ pi <= Len(packages)
  /\ ~StatDstErr(packages[pi].Dir)
  /\ subPkgs' = listPackages(packages[pi].Dir)
  /\ si' = 1 /\ fi' = 1
  /\ pc' = "files"
  /\ Acting
  /\ UNCHANGED <<flagVars, mapVars, treeVars, ghostVars, result, secondRun, ri,
                 listPkgs, li, ii, packages, pi, body, rulesLeft, failure>>

\* ... or fails: return err
ListDirErr ==
  /\ pc = "copy" /\ pi <= Len(packages)
  /\ ~StatDstErr(packages[pi].Dir)
  /\ ReturnErr("list")
  /\ Acting
  /\ UNCHANGED <<flagVars, mapVars, treeVars, cursorVars, ghostVars, secondRun>>

\* the range over packages is exhausted: next root
NextRoot ==
  /\ pc = "copy" /\ pi > Len(packages)
  /\ ri' = ri + 1
  /\ pc' = "root"
  /\ UNCHANGED <<flagVars, mapVars, treeVars, ghostVars, result, secondRun,
                 listPkgs, li, ii, packages, pi, subPkgs, si, fi, body, rulesLeft,
                 failure, afterFail>>

-----------------------------------------------------------------------------
(* copyInternal, readFile, writeFile *)

InCopy == pc = "files" /\ si <= Len(subPkgs)

AtFile == InCopy /\ fi <= Len(sourceFiles(subPkgs[si]))

\* for _, path := range sourceFiles(pkg): the zbootstrap.go test, then
\* body := readFile(path); name := filepath.Base(path)
ReadFile ==
  /\ AtFile
  /\ handed' = handed \cup {subPkgs[si].Dir}
  /\ IF sourceFiles(subPkgs[si])[fi] = zbootstrap
     THEN /\ fi' = fi + 1
          /\ UNCHANGED <<pc, body, rulesLeft>>
     ELSE /\ body' = readFile(SrcBody(subPkgs[si]), flagModule)
          /\ rulesLeft' = 1..Len(Rules)
          /\ pc' = "rules"
          /\ UNCHANGED fi
  /\ UNCHANGED <<flagVars, mapVars, treeVars, result, secondRun, ri, listPkgs, li, ii,
                 packages, pi, subPkgs, si, failure, afterFail, expandCalls, writes,
                 dirsAtStart>>

\* os.ReadFile fails: panic(err)
ReadFilePanic ==
  /\ AtFile
  /\ sourceFiles(subPkgs[si])[fi] # zbootstrap
  /\ handed' = handed \cup {subPkgs[si].Dir}
  /\ failure' = "read"
  /\ result' = "panic"
  /\ pc' = "done"
  /\ UNCHANGED <<flagVars, mapVars, treeVars, cursorVars, secondRun, afterFail,
                 expandCalls, writes, dirsAtStart>>

\* The rules the range over the table has not visited yet and that match pkg.Dir.
Matching == {r \in rulesLeft : RuleMatches(r, subPkgs[si].Dir)}

DstDir(r) == DstDirOf(r, subPkgs[si].Dir)

AtRule(r) == pc = "rules" /\ r \in Matching

\* writeFile: os.MkdirAll fails
WriteFileMkdirErr ==
  \E r \in rulesLeft :
    /\ AtRule(r)
    /\ ReturnErr("write")
    /\ Acting
    /\ UNCHANGED <<flagVars, mapVars, treeVars, cursorVars, ghostVars, secondRun>>

\* writeFile: imports.Process fails, after the directory was made
WriteFileFormatErr ==
  \E r \in rulesLeft :
    /\ AtRule(r)
    /\ dirs' = dirs \cup {DstDir(r)}
    /\ ReturnErr("write")
    /\ Acting
    /\ UNCHANGED <<flagVars, mapVars, fs, cursorVars, ghostVars, secondRun>>

\* writeFile: os.WriteFile fails, after the directory was made
WriteFileWriteErr ==
  \E r \in rulesLeft :
    /\ AtRule(r)
    /\ dirs' = dirs \cup {DstDir(r)}
    /\ ReturnErr("write")
    /\ Acting
    /\ UNCHANGED <<flagVars, mapVars, fs, cursorVars, ghostVars, secondRun>>

\* writeFile succeeds.  The formatter's output is kept as the rewritten body:
\* it lays the import block out anew and leaves the literals as they are.
WriteFile ==
  \E r \in rulesLeft :
    /\ AtRule(r)
    /\ LET name == Base(sourceFiles(subPkgs[si])[fi])
       IN  /\ dirs' = dirs \cup {DstDir(r)}
           /\ fs' = {f \in fs : ~(f.dir = DstDir(r) /\ f.name = name)}
                      \cup {[dir |-> DstDir(r), name |-> name, body |-> body]}
           /\ writes' = writes \cup {[second |-> secondRun, src |-> subPkgs[si].Dir,
                                      name |-> name, dst |-> DstDir(r)]}
    /\ rulesLeft' = rulesLeft \ {r}
    /\ Acting
    /\ UNCHANGED <<flagVars, mapVars, pc, result, secondRun, ri, listPkgs, li, ii,
                   packages, pi, subPkgs, si, fi, body, failure, expandCalls, handed,
                   dirsAtStart>>

\* the range over the table is exhausted: next path
NextFile ==
  /\ pc = "rules" /\ Matching = {}
  /\ fi' = fi + 1
  /\ pc' = "files"
  /\ UNCHANGED <<flagVars, mapVars, treeVars, ghostVars, result, secondRun, ri,
                 listPkgs, li, ii, packages, pi, subPkgs, si, body, rulesLeft,
                 failure, afterFail>>

\* the range over sourceFiles(pkg) is exhausted: copyInternal returns nil
CopyInternalDone ==
  /\ InCopy /\ fi > Len(sourceFiles(subPkgs[si]))
  /\ handed' = handed \cup {subPkgs[si].Dir}
  /\ si' = si + 1 /\ fi' = 1
  /\ UNCHANGED <<flagVars, mapVars, treeVars, pc, result, secondRun, ri, listPkgs, li,
                 ii, packages, pi, subPkgs, body, rulesLeft, failure, afterFail,
                 expandCalls, writes, dirsAtStart>>

\* the range over subPkgs is exhausted: next p
NextPackage ==
  /\ pc = "files" /\ si > Len(subPkgs)
  /\ pi' = pi + 1
  /\ pc' = "copy"
  /\ UNCHANGED <<flagVars, mapVars, treeVars, ghostVars, result, secondRun, ri,
                 listPkgs, li, ii, packages, subPkgs, si, fi, body, rulesLeft,
                 failure, afterFail>>

\* main returned without an error; the command is run again, with the same
\* arguments, on the destination it left.
Rerun ==
  /\ pc = "done" /\ result = "ok" /\ ~secondRun
  /\ secondRun' = TRUE
  /\ dirsAtStart' = dirs
  /\ pc' = "root" /\ result' = "running"
  /\ ri' = 1 /\ listPkgs' = <<>> /\ li' = 1 /\ ii' = 0
  /\ packages' = <<>> /\ pi' = 1
  /\ subPkgs' = <<>> /\ si' = 1 /\ fi' = 1
  /\ body' = <<>> /\ rulesLeft' = {}
  /\ expandCalls' = <<>>
  /\ UNCHANGED <<flagVars, mapVars, treeVars, failure, afterFail, writes, handed>>

-----------------------------------------------------------------------------
(* the program *)

RootSeqs == UNION {[1..n -> RootChoices] : n \in 1..MaxRoots}

RunStart ==
  /\ pc = "root" /\ result = "running" /\ secondRun = FALSE
  /\ ri = 1 /\ listPkgs = <<>> /\ li = 1 /\ ii = 0
  /\ packages = <<>> /\ pi = 1
  /\ subPkgs = <<>> /\ si = 1 /\ fi = 1
  /\ body = <<>> /\ rulesLeft = {}
  /\ dirs = {} /\ fs = {}
  /\ failure = "none" /\ afterFail = FALSE
  /\ expandCalls = <<>> /\ writes = {} /\ handed = {} /\ dirsAtStart = {}

MapIdle == mStage = "off" /\ mPath = <<>> /\ mLit = <<>> /\ mDir = <<>>

Init ==
  /\ variant \in {"main", "part_000"}
  /\ flagPackages \in RootSeqs
  /\ flagModule = <<"example.com", "/", "x">>
  /\ env \in { [imports |-> [p \in Universe |-> ImportsOf(p, edges)],
                disk |-> d, files |-> f, statErr |-> e] :
               edges \in SUBSET EdgeChoices, d \in DiskChoices, f \in FileChoices,
               e \in StatErrChoices }
  /\ RunStart
  /\ MapIdle

Next ==
  \/ ListRoot \/ ListRootErr \/ ReturnNil
  \/ StatSkip \/ AppendListPkg
  \/ ListImport \/ ListImportErr \/ IgnoreImport \/ NextListPkg \/ ExpandDone
  \/ DstStatSkip \/ ListDir \/ ListDirErr \/ NextRoot
  \/ ReadFile \/ ReadFilePanic
  \/ WriteFile \/ WriteFileMkdirErr \/ WriteFileFormatErr \/ WriteFileWriteErr
  \/ NextFile \/ CopyInternalDone \/ NextPackage
  \/ Rerun

Spec == Init /\ [][Next]_vars

-----------------------------------------------------------------------------
(* The path mapper on its own: one package, named by its import path mPath   *)
(* and lying at <gorootSrc>/mPath, is mapped by copyInternal (its directory) *)
(* and by readFile (the literal "mPath" in a file body); then both outputs   *)
(* are mapped once more.                                                     *)

MapPrefixes ==
  { <<"internal">>,
    <<"cmd", "/", "internal">>,
    <<"cmd", "/", "asm", "/", "internal">>,
    <<"cmd", "/", "compile", "/", "internal">>,
    <<"cmd", "/", "go", "/", "internal">>,
    <<"cmd", "/", "link", "/", "internal">>,
    <<"mything", "/", "internal">>,
    <<"my", "internal">>,
    <<"fmt">> }

MapRests ==
  { <<"foo">>, <<"foo", "/", "bar">>, <<"foo", "/", "internal", "/", "bar">>,
    <<"internal", "/", "foo">> }

MatchingRules(dir) == {r \in 1..Len(Rules) : RuleMatches(r, dir)}

\* The directories copyInternal writes the files of the package at dir to;
\* dir itself when no rule matches and nothing is copied.
MapDir(dir) ==
  IF MatchingRules(dir) = {} THEN {dir}
  ELSE {DstDirOf(r, dir) : r \in MatchingRules(dir)}

RewriteOnce ==
  /\ mStage = "in"
  /\ mLit' = <<readFile(QUOTE \o mPath \o QUOTE, flagModule)>>
  /\ mDir' = <<MapDir(Join(<<gorootSrc, mPath>>))>>
  /\ mStage' = "once"
  /\ UNCHANGED <<flagVars, runVars, mPath>>

RewriteAgain ==
  /\ mStage = "once"
  /\ mLit' = Append(mLit, readFile(mLit[1], flagModule))
  /\ mDir' = Append(mDir, UNION {MapDir(d) : d \in mDir[1]})
  /\ mStage' = "twice"
  /\ UNCHANGED <<flagVars, runVars, mPath>>

RunIdle ==
  /\ pc = "off" /\ result = "off" /\ secondRun = FALSE
  /\ ri = 1 /\ listPkgs = <<>> /\ li = 1 /\ ii = 0
  /\ packages = <<>> /\ pi = 1
  /\ subPkgs = <<>> /\ si = 1 /\ fi = 1
  /\ body = <<>> /\ rulesLeft = {}
  /\ dirs = {} /\ fs = {}
  /\ failure = "none" /\ afterFail = FALSE
  /\ expandCalls = <<>> /\ writes = {} /\ handed = {} /\ dirsAtStart = {}

InitMap ==
  /\ variant = "main"
  /\ flagPackages = <<>>
  /\ flagModule \in Modules
  /\ env = [imports |-> [p \in Universe |-> <<>>],
            disk |-> [p \in Universe |-> "ok"],
            files |-> [GoFiles |-> <<>>, TestGoFiles |-> <<>>,
                       XTestGoFiles |-> <<>>, IgnoredGoFiles |-> <<>>],
            statErr |-> {}]
  /\ RunIdle
  /\ mStage = "in"
  /\ mPath \in {pre \o sep \o rest : pre \in MapPrefixes, rest \in MapRests}
  /\ mLit = <<>>
  /\ mDir = <<>>

NextMap == RewriteOnce \/ RewriteAgain

SpecMap == InitMap /\ [][NextMap]_vars

-----------------------------------------------------------------------------
(* Properties of run (checked under Spec) *)

ImportPathsOf(pkgs) == {pkgs[k].ImportPath : k \in 1..Len(pkgs)}

NoDuplicates(pkgs) ==
  \A j, k \in 1..Len(pkgs) :
    j # k => pkgs[j].ImportPath # pkgs[k].ImportPath /\ pkgs[j].Dir # pkgs[k].Dir

\* The packages one restricted import edge away from p.
RestrictedImports(p) ==
  {q \in Universe : <<p, q>> \in {<<p, Descr(p).Imports[k]>> : k \in 1..Len(Descr(p).Imports)}
                    /\ IsRestricted(q)}

RECURSIVE Reachable(_)
Reachable(S) ==
  LET T == S \cup UNION {RestrictedImports(p) : p \in S}
  IN  IF T = S THEN S ELSE Reachable(T)

\* The root packages of the current root query that are on disk.
RootsOnDisk == {listPkgs[k].ImportPath : k \in {j \in 1..Len(listPkgs) : StatSrc(listPkgs[j].Dir)}}

\* C1: when the expansion loop of a root has ended, the package set is exactly
\* the set of packages reachable from the root packages by chains of restricted
\* import edges, and holds no package twice.
C1_ClosureExact ==
  pc = "copy" =>
    /\ ImportPathsOf(packages) = Reachable(RootsOnDisk)
    /\ NoDuplicates(packages)

\* C3: in a second run, no file is written into a destination directory that
\* the first run left behind.
C3_SecondRunWritesNothing ==
  \A w \in writes : w.second => w.dst \notin dirsAtStart

\* C4: no file named zbootstrap.go is ever written to the destination tree.
C4_NoZbootstrap ==
  /\ \A f \in fs : f.name # zbootstrap
  /\ \A w \in writes : w.name # zbootstrap

\* The file names of a package that is on disk.
FileNames ==
  env.files.GoFiles \o env.files.TestGoFiles \o env.files.XTestGoFiles
    \o env.files.IgnoredGoFiles

\* The first rule, in the order of the table, whose prefix matches dir.
FirstRule(dir) == CHOOSE r \in MatchingRules(dir) : \A q \in MatchingRules(dir) : r <= q

FirstDst(dir) == DstDirOf(FirstRule(dir), dir)

\* C9: every file copyInternal writes goes to the destination of the first
\* rule of the table that matches the package directory, and to no other
\* place, in the first run and in the second; a package directory that no
\* rule matches gets no directory and no file.
C9_FirstRuleDecides ==
  /\ \A w \in writes : MatchingRules(w.src) # {} /\ w.dst = FirstDst(w.src)
  /\ \A d \in dirs : \E src \in handed : MatchingRules(src) # {} /\ d = FirstDst(src)
  /\ \A f \in fs : \E w \in writes : w.dst = f.dir /\ w.name = f.name
  /\ (pc = "done" /\ result = "ok") =>
       \A src \in handed : \A k \in 1..Len(FileNames) :
         (MatchingRules(src) # {}) =>
           \E w \in writes : /\ w.second = secondRun /\ w.src = src
                              /\ w.name = <<FileNames[k]>> /\ w.dst = FirstDst(src)

\* C9's case: both runs are over, files were written, and a package that no
\* rule matches went through copyInternal.
C9_Witness ==
  /\ pc = "done" /\ result = "ok" /\ secondRun
  /\ \E w \in writes : w.second
  /\ \E src \in handed : src # <<>> /\ MatchingRules(src) = {}

C8_MissingSkipped ==
  /\ \A k \in 1..Len(packages) : StatSrc(packages[k].Dir)
  /\ \A d \in handed : StatSrc(d)

\* C10: within the expansion of one root the resolver is asked for an import
\* path at most once and no import path enters the package set twice.
C10_ExpandedOnce ==
  /\ \A j, k \in 1..Len(expandCalls) : j # k => expandCalls[j] # expandCalls[k]
  /\ \A j, k \in 1..Len(packages) : j # k => packages[j].ImportPath # packages[k].ImportPath

-----------------------------------------------------------------------------
(* Properties of the path mapper (checked under SpecMap) *)

\* The replacements of readFile's table whose search string starts path.
LeadingLiterals(path) ==
  {k \in 1..Len(Literals(flagModule)) : HasPrefix(path, Literals(flagModule)[k].old)}

\* path with only its leading restricted segment replaced.
LeadingRewrite(path) ==
  IF LeadingLiterals(path) = {} THEN path
  ELSE LET k == CHOOSE j \in LeadingLiterals(path) : \A q \in LeadingLiterals(path) : j <= q
           t == Literals(flagModule)[k]
       IN  t.new \o SubSeq(path, Len(t.old) + 1, Len(path))

\* C2: readFile replaces a restricted root only where it leads the quoted
\* import path; the rest of the path, and a path it does not lead, are kept.
C2_LeadingSegmentOnly ==
  mStage # "in" => mLit[1] = QUOTE \o LeadingRewrite(mPath) \o QUOTE

\* C5: for a package under a restricted subtree, the rewritten literal is the
\* module prefix joined with the destination directory taken relative to the
\* destination root.
C5_LiteralNamesDestination ==
  (mStage # "in" /\ MatchingRules(Join(<<gorootSrc, mPath>>)) # {}) =>
    \A d \in mDir[1] :
      mLit[1] = QUOTE \o Join(<<flagModule, TrimPrefix(d, flagDist)>>) \o QUOTE

\* C6: mapping a mapped directory or a rewritten literal once more changes
\* nothing.
C6_MappingIdempotent ==
  mStage = "twice" =>
    /\ mLit[2] = mLit[1]
    /\ mDir[2] = mDir[1]
    /\ \A d \in mDir[1] : MatchingRules(d) = {}

====
